---- MODULE Spec2Model ----
(***************************************************************************)
(* Order reconciliation (PUT /orders-by-number/:order_no) and order-number *)
(* generation (GET /api/orders/next-order-number) of firebase-connector.js *)
(* over a PostgreSQL orders table.                                         *)
(*                                                                         *)
(* JSON values are strings; a number n is the string of its digits.  A     *)
(* descriptor is a function from the keys it carries to their values; the  *)
(* keys "id" (a number) and "_deleted" (a boolean) keep their own types.   *)
(* The table is a function from the ids of the stored rows to rows, and a  *)
(* row is a function from the columns to values.                           *)
(* Line numbers are those of firebase-connector.js.                        *)
(***************************************************************************)
EXTENDS Integers, Sequences, FiniteSets, TLC

\* ------------------------------------------------------------------ bounds
\* longest batch a request carries
MaxBatch == 2
\* longest batch of a request that runs concurrently with another one
MaxConcBatch == 1
\* last id the orders_id sequence hands out
MaxId == 8
\* rows created (by POST /orders) before the first reconciliation arrives
InitRows == 3
\* largest sequence number of the latest persisted order number
MaxSeq == 9999
\* most order numbers the store holds when the next one is computed
MaxStored == 2
MaxOrders == 4

\* ------------------------------------------------------------------ clock
VARIABLE today  \* new Date(): [day, month, year]

\* ------------------------------------------------------------ the columns
commonFields ==
  {"voucher_type", "order_date", "customer_code", "customer_name",
   "executive", "role", "status", "total_quantity", "total_amount",
   "total_amount_without_tax", "total_sgst_amount", "total_cgst_amount",
   "total_igst_amount", "remarks"}

allowedFields ==
  {"status", "disc_percentage", "disc_amount", "spl_disc_percentage",
   "spl_disc_amount", "net_rate", "gross_amount", "total_quantity",
   "total_amount", "total_amount_without_tax", "remarks", "quantity",
   "delivery_date", "delivery_mode", "transporter_name",
   "total_sgst_amount", "total_cgst_amount", "total_igst_amount",
   "sgst", "cgst", "igst", "gst", "hsn", "rate", "amount", "uom",
   "item_code", "item_name", "order_date"}

\* the line columns of an inserted row, each with the value `||` falls back to
lineDefaults ==
  [item_code |-> "", item_name |-> "", hsn |-> "", gst |-> "0", sgst |-> "0",
   cgst |-> "0", igst |-> "0", delivery_date |-> "null", delivery_mode |-> "",
   quantity |-> "0", uom |-> "", rate |-> "0", amount |-> "0",
   net_rate |-> "0", gross_amount |-> "0", disc_percentage |-> "0",
   disc_amount |-> "0", spl_disc_percentage |-> "0", spl_disc_amount |-> "0",
   transporter_name |-> ""]

lineFields == DOMAIN lineDefaults

Columns == {"order_no"} \cup commonFields \cup lineFields

\* new Date().toISOString().split('T')[0] on the dates in use
toISODate(date) ==
  IF date.year > 2100 THEN "2124-06-05"
  ELSE IF date.day > 5 THEN "2024-06-06"
  ELSE "2024-06-05"

Today == toISODate(today)

defaultOrderDetails ==
  [voucher_type |-> "Sales Order", order_date |-> Today, customer_code |-> "",
   customer_name |-> "", executive |-> "", role |-> "", status |-> "pending",
   total_quantity |-> "0", total_amount |-> "0",
   total_amount_without_tax |-> "0", total_sgst_amount |-> "0",
   total_cgst_amount |-> "0", total_igst_amount |-> "0", remarks |-> ""]

\* ------------------------------------------------------- descriptors (JS)
Has(d, k) == k \in DOMAIN d

\* item.id as a condition: a missing id and the id 0 are falsy
HasId(d) == Has(d, "id") /\ d["id"] # 0

\* item._deleted as a condition
IsDeleted(d) == Has(d, "_deleted") /\ d["_deleted"] = TRUE

\* (a.id || 0), the key of the sort of the batch
IdKey(d) == IF HasId(d) THEN d["id"] ELSE 0

\* Array.prototype.sort is stable: insertion of s[n] after the sorted prefix
RECURSIVE SortById(_)
SortById(s) ==
  IF Len(s) <= 1 THEN s
  ELSE LET prefix == SortById(SubSeq(s, 1, Len(s) - 1))
           last == s[Len(s)]
           k == Cardinality({i \in 1..Len(prefix) : IdKey(prefix[i]) <= IdKey(last)})
       IN SubSeq(prefix, 1, k) \o <<last>> \o SubSeq(prefix, k + 1, Len(prefix))

\* a filter of the inserts that forgets the id: an update is inserted as well
IsInsertIgnoringId(d) == ~IsDeleted(d)

\* a filter of the inserts that forgets the deletion flag
IsInsertIgnoringFlag(d) == ~HasId(d)

IsInsert(d) == ~HasId(d) /\ ~IsDeleted(d)
\* an update filter that does not look at the deletion flag
IsUpdateIgnoringFlag(d) == HasId(d)
IsUpdate(d) == HasId(d) /\ ~IsDeleted(d)
IsDelete(d) == IsDeleted(d) /\ HasId(d)
NotDeleted(d) == ~IsDeleted(d)

itemsToInsert(allItems) == SelectSeq(allItems, IsInsert)
itemsToUpdate(allItems) == SelectSeq(allItems, IsUpdate)
itemsToDelete(allItems) == SelectSeq(allItems, IsDelete)

\* deleteIds, as the array (with repetitions) and as the set ANY() matches
deleteIds(allItems) ==
  [i \in 1..Len(itemsToDelete(allItems)) |-> itemsToDelete(allItems)[i]["id"]]

SeqRange(s) == {s[i] : i \in 1..Len(s)}

\* a source that is the first valid item, with an id or not
priorityItemFirst(validItems) == validItems[1]

\* validItems.find(item => item.id) || validItems[0]
priorityItem(validItems) ==
  IF \E i \in 1..Len(validItems) : HasId(validItems[i])
  THEN validItems[CHOOSE i \in 1..Len(validItems) :
                    /\ HasId(validItems[i])
                    /\ \A j \in 1..(i - 1) : ~HasId(validItems[j])]
  ELSE validItems[1]

commonOrderDetails(allItems) ==
  LET validItems == SelectSeq(allItems, NotDeleted)
  IN IF Len(validItems) > 0
     THEN [f \in commonFields |->
             IF Has(priorityItem(validItems), f)
             THEN priorityItem(validItems)[f]
             ELSE defaultOrderDetails[f]]
     ELSE defaultOrderDetails

\* an allowlist that lets order_no through
filteredFieldsWithOrderNo(update) ==
  [k \in (DOMAIN update \ {"id", "_deleted"}) \cap (allowedFields \cup {"order_no"}) |-> update[k]]

\* a SET clause built from every key of the descriptor
filteredFieldsUnfiltered(update) ==
  [k \in DOMAIN update \ {"id", "_deleted"} |-> update[k]]

\* const { id, _deleted, ...fields } = update, then the allowlist filter
filteredFields(update) ==
  [k \in (DOMAIN update \ {"id", "_deleted"}) \cap allowedFields |-> update[k]]

\* cleanNewItem.f || default: a missing key, '' and the number 0 are falsy
OrDefault(d, f) == IF Has(d, f) /\ d[f] # "" /\ d[f] # "0" THEN d[f] ELSE lineDefaults[f]

\* an insert that lets the descriptor's own order_no and header keys win
insertItemSpread(order_no, common, newItem) ==
  [c \in Columns |->
     IF c \in lineFields THEN OrDefault(newItem, c)
     ELSE IF Has(newItem, c) THEN newItem[c]
     ELSE IF c = "order_no" THEN order_no
     ELSE common[c]]

insertItem(order_no, common, newItem) ==
  [c \in Columns |->
     IF c = "order_no" THEN order_no
     ELSE IF c \in commonFields THEN common[c]
     ELSE OrDefault(newItem, c)]

\* the row INSERT stores: the id column is filled from the sequence
Stored(item, id) ==
  [c \in DOMAIN item \cup {"id"} |-> IF c = "id" THEN id ELSE item[c]]

\* UPDATE orders SET <filtered> on one row
SetFields(row, fields) ==
  [c \in DOMAIN row |-> IF c \in DOMAIN fields THEN fields[c] ELSE row[c]]

\* a broadcast whose SET list misses the columns the update allowlist lacks
SetCommonAllowlisted(row, common) ==
  [c \in DOMAIN row |-> IF c \in commonFields \cap allowedFields THEN common[c] ELSE row[c]]

\* updateCommonSql on one row
\* a broadcast that writes only the header values the batch supplied and
\* keeps the stored value where the resolved value is the default
SetCommonKeepingStored(row, common) ==
  [c \in DOMAIN row |->
     IF c \in commonFields /\ common[c] # defaultOrderDetails[c] THEN common[c] ELSE row[c]]

SetCommon(row, common) ==
  [c \in DOMAIN row |-> IF c \in commonFields THEN common[c] ELSE row[c]]

\* ------------------------------------------------------------------ state
Req == {"r1", "r2"}

VARIABLES
  db,          \* the committed orders table: id -> row
  nextId,      \* next value of the id sequence (never rolled back)
  pc,          \* where each request's handler stands
  req,         \* req.params.order_no and req.body of each request
  allItems,    \* the sorted batch
  orderExists, \* result of the existence check
  common,      \* commonOrderDetails of the request
  idx,         \* index of the running for-loop
  tx,          \* uncommitted work of the request's transaction
  txn,         \* "none", "open", "committed", "aborted"
  conn,        \* "none", "held", "released"
  log,         \* what the handler did on its client, in order
  error,       \* the exception caught
  resp,        \* the response sent
  db0,         \* the table before the first request arrived
  latest,      \* order_no of the latest persisted SQ- order, <<>> if none
  gen,         \* the response of GET /api/orders/next-order-number
  stored       \* the persisted SQ- order numbers (latest is the last created)

putVars == <<db, nextId, pc, req, allItems, orderExists, common, idx, tx, txn,
             conn, log, error, resp, db0>>
genVars == <<latest, today, gen, stored>>
vars == <<putVars, genVars>>

Err(kind, id, owner, ids) == [kind |-> kind, id |-> id, owner |-> owner, ids |-> ids]
NoErr == Err("", 0, "", {})

NoRows == [i \in {} |-> defaultOrderDetails]
NoOps == [inserted |-> 0, updated |-> 0, deleted |-> 0, total |-> 0]
Response(status, success, message, data, ops) ==
  [status |-> status, success |-> success, message |-> message,
   data |-> data, operations |-> ops]
NoResp == Response(0, FALSE, NoErr, NoRows, NoOps)

NoTx == [del |-> {}, put |-> NoRows]

\* ------------------------------------------------ the store (PostgreSQL)
\* READ COMMITTED: a statement of r sees the committed rows and r's own work
View(r) ==
  [i \in ((DOMAIN db) \ tx[r].del) \cup DOMAIN tx[r].put |->
     IF i \in DOMAIN tx[r].put THEN tx[r].put[i] ELSE db[i]]

\* row i carries the row lock of another open transaction
Locked(r, i) == \E o \in Req \ {r} : i \in tx[o].del \cup DOMAIN tx[o].put

\* ids of the rows WHERE order_no = $1
RowsOf(view, order_no) == {i \in DOMAIN view : view[i]["order_no"] = order_no}

Restrict(f, S) == [i \in S |-> f[i]]

\* r's transaction after writing row i / after deleting the rows S
Put(t, i, row) ==
  [t EXCEPT !.put = [j \in DOMAIN t.put \cup {i} |-> IF j = i THEN row ELSE t.put[j]]]
Remove(t, S) ==
  [del |-> t.del \cup (S \cap DOMAIN db), put |-> Restrict(t.put, DOMAIN t.put \ S)]

RECURSIVE PutAll(_, _, _, _)
PutAll(t, view, S, cmn) ==
  IF S = {} THEN t
  ELSE LET i == CHOOSE j \in S : TRUE
       IN PutAll(Put(t, i, SetCommon(view[i], cmn)), view, S \ {i}, cmn)

\* String.prototype.trim on the order numbers in use
Trim(s) == IF s = " " THEN "" ELSE s

\* ------------------------------------------------- the handler, by steps
toInsert(r) == itemsToInsert(allItems[r])
toUpdate(r) == itemsToUpdate(allItems[r])
toDelete(r) == itemsToDelete(allItems[r])
orderNo(r) == req[r].order_no

\* first update descriptor from i on that issues a query: without the
\* ownership check a descriptor with no allowlisted field is skipped (continue)
RECURSIVE NextQuery(_, _, _)
NextQuery(items, i, exists) ==
  IF i > Len(items) THEN i
  ELSE IF exists \/ DOMAIN filteredFields(items[i]) # {} THEN i
  ELSE NextQuery(items, i + 1, exists)

AfterInserts(r, exists) ==
  IF exists \/ Len(toInsert(r)) > 0 THEN "broadcast" ELSE "commit"

AfterUpdates(r, exists) ==
  IF Len(toInsert(r)) > 0 THEN "insert" ELSE AfterInserts(r, exists)

\* the loop over itemsToUpdate from index i on
UpdatesFrom(r, i, exists) ==
  LET j == NextQuery(toUpdate(r), i, exists)
  IN IF j > Len(toUpdate(r)) THEN [pc |-> AfterUpdates(r, exists), idx |-> 1]
     ELSE [pc |-> IF exists THEN "itemCheck" ELSE "update", idx |-> j]

AfterDeletes(r, exists) == UpdatesFrom(r, 1, exists)

\* a handler without its delete phase
AfterCheckNoDeletes(r, exists) == AfterDeletes(r, exists)

AfterCheck(r, exists) ==
  IF Len(toDelete(r)) > 0
  THEN [pc |-> IF exists THEN "verify" ELSE "delete", idx |-> 1]
  ELSE AfterDeletes(r, exists)

Goto(r, to) ==
  /\ pc' = [pc EXCEPT ![r] = to.pc]
  /\ idx' = [idx EXCEPT ![r] = to.idx]

\* an exception inside the try block: control passes to the catch block
Throw(r, e) ==
  /\ pc' = [pc EXCEPT ![r] = "rollback"]
  /\ error' = [error EXCEPT ![r] = e]
  /\ UNCHANGED idx

Did(r, what) == log' = [log EXCEPT ![r] = Append(@, what)]

\* lines 694-715: the request checks that precede pool.connect()
Receive(r, order_no, isArray, body) ==
  /\ pc[r] = "idle"
  /\ req' = [req EXCEPT ![r] = [order_no |-> order_no, isArray |-> isArray, body |-> body]]
  /\ IF ~isArray
     THEN \* [...req.body] throws TypeError: the handler's promise rejects
          /\ pc' = [pc EXCEPT ![r] = "done"]
          /\ UNCHANGED <<allItems, resp>>
     ELSE /\ allItems' = [allItems EXCEPT ![r] = SortById(body)]
          /\ IF Trim(order_no) = ""
             THEN /\ resp' = [resp EXCEPT ![r] =
                       Response(400, FALSE, Err("Order Number is required", 0, "", {}), NoRows, NoOps)]
                  /\ pc' = [pc EXCEPT ![r] = "done"]
             ELSE IF Len(body) = 0
             THEN /\ resp' = [resp EXCEPT ![r] =
                       Response(400, FALSE, Err("No data provided", 0, "", {}), NoRows, NoOps)]
                  /\ pc' = [pc EXCEPT ![r] = "done"]
             ELSE /\ pc' = [pc EXCEPT ![r] = "connect"]
                  /\ UNCHANGED resp
  /\ UNCHANGED <<db, nextId, orderExists, common, idx, tx, txn, conn, log, error, db0>>

\* line 717: const client = await pool.connect()
Connect(r) ==
  /\ pc[r] = "connect"
  /\ conn' = [conn EXCEPT ![r] = "held"]
  /\ Did(r, "connect")
  /\ pc' = [pc EXCEPT ![r] = "begin"]
  /\ UNCHANGED <<db, nextId, req, allItems, orderExists, common, idx, tx, txn, error, resp, db0>>

\* pool.connect() rejects (no client within connectionTimeoutMillis): the
\* await is outside the try block, no response is written
ConnectError(r) ==
  /\ pc[r] = "connect"
  /\ pc' = [pc EXCEPT ![r] = "done"]
  /\ UNCHANGED <<db, nextId, req, allItems, orderExists, common, idx, tx, txn, conn, log, error, resp, db0>>

\* line 720
Begin(r) ==
  /\ pc[r] = "begin"
  /\ txn' = [txn EXCEPT ![r] = "open"]
  /\ Did(r, "BEGIN")
  /\ pc' = [pc EXCEPT ![r] = "check"]
  /\ UNCHANGED <<db, nextId, req, allItems, orderExists, common, idx, tx, conn, error, resp, db0>>

\* an existence check that takes a missing order for an error, inserts or not
ExistenceCheckRequiresOrder(r) ==
  LET exists == RowsOf(View(r), orderNo(r)) # {}
  IN /\ pc[r] = "check"
     /\ Did(r, "SELECT")
     /\ orderExists' = [orderExists EXCEPT ![r] = exists]
     /\ IF ~exists
        THEN /\ Throw(r, Err("does not exist and no new items provided", 0, orderNo(r), {}))
             /\ UNCHANGED common
        ELSE /\ common' = [common EXCEPT ![r] = commonOrderDetails(allItems[r])]
             /\ Goto(r, AfterCheck(r, exists))
             /\ UNCHANGED error
     /\ UNCHANGED <<db, nextId, req, allItems, tx, txn, conn, resp, db0>>

\* lines 723-774: SELECT COUNT(*), then the header is resolved
ExistenceCheck(r) ==
  LET exists == RowsOf(View(r), orderNo(r)) # {}
  IN /\ pc[r] = "check"
     /\ Did(r, "SELECT")
     /\ orderExists' = [orderExists EXCEPT ![r] = exists]
     /\ IF ~exists /\ Len(toInsert(r)) = 0
        THEN /\ Throw(r, Err("does not exist and no new items provided", 0, orderNo(r), {}))
             /\ UNCHANGED common
        ELSE /\ common' = [common EXCEPT ![r] = commonOrderDetails(allItems[r])]
             /\ Goto(r, AfterCheck(r, exists))
             /\ UNCHANGED error
     /\ UNCHANGED <<db, nextId, req, allItems, tx, txn, conn, resp, db0>>

\* lines 781-794: the delete ids must all be rows of this order
VerifyDeletes(r) ==
  LET ids == deleteIds(allItems[r])
      foundIds == RowsOf(View(r), orderNo(r)) \cap SeqRange(ids)
  IN /\ pc[r] = "verify"
     /\ Did(r, "SELECT")
     /\ IF Cardinality(foundIds) # Len(ids)
        THEN Throw(r, Err("Cannot delete items", 0, orderNo(r), SeqRange(ids) \ foundIds))
        ELSE /\ pc' = [pc EXCEPT ![r] = "delete"]
             /\ UNCHANGED <<idx, error>>
     /\ UNCHANGED <<db, nextId, req, allItems, orderExists, common, tx, txn, conn, resp, db0>>

\* lines 796-802: DELETE ... WHERE id = ANY($1) AND order_no = $2
\* a DELETE whose WHERE clause has lost its AND order_no
DeleteAnyOrder(r) ==
  LET targets == DOMAIN View(r) \cap SeqRange(deleteIds(allItems[r]))
  IN /\ pc[r] = "delete"
     /\ \A i \in targets : ~Locked(r, i)
     /\ Did(r, "DELETE")
     /\ tx' = [tx EXCEPT ![r] = Remove(@, targets)]
     /\ Goto(r, AfterDeletes(r, orderExists[r]))
     /\ UNCHANGED <<db, nextId, req, allItems, orderExists, common, txn, conn, error, resp, db0>>

Delete(r) ==
  LET targets == RowsOf(View(r), orderNo(r)) \cap SeqRange(deleteIds(allItems[r]))
  IN /\ pc[r] = "delete"
     /\ \A i \in targets : ~Locked(r, i)
     /\ Did(r, "DELETE")
     /\ tx' = [tx EXCEPT ![r] = Remove(@, targets)]
     /\ Goto(r, AfterDeletes(r, orderExists[r]))
     /\ UNCHANGED <<db, nextId, req, allItems, orderExists, common, txn, conn, error, resp, db0>>

\* lines 823-848: SELECT order_no FROM orders WHERE id = $1
ItemCheck(r) ==
  LET update == toUpdate(r)[idx[r]]
      id == update["id"]
      view == View(r)
  IN /\ pc[r] = "itemCheck"
     /\ Did(r, "SELECT")
     /\ IF id \notin DOMAIN view
        THEN Throw(r, Err("does not exist", id, "", {}))
        ELSE IF view[id]["order_no"] # orderNo(r)
        THEN Throw(r, Err("belongs to order", id, view[id]["order_no"], {}))
        ELSE /\ IF DOMAIN filteredFields(update) = {}
                THEN Goto(r, UpdatesFrom(r, idx[r] + 1, orderExists[r]))
                ELSE /\ pc' = [pc EXCEPT ![r] = "update"]
                     /\ UNCHANGED idx
             /\ UNCHANGED error
     /\ UNCHANGED <<db, nextId, req, allItems, orderExists, common, tx, txn, conn, resp, db0>>

\* an UPDATE whose rowCount is not looked at
UpdateIgnoringRowCount(r) ==
  LET update == toUpdate(r)[idx[r]]
      id == update["id"]
      view == View(r)
      hit == id \in RowsOf(view, orderNo(r))
  IN /\ pc[r] = "update"
     /\ hit => ~Locked(r, id)
     /\ Did(r, "UPDATE")
     /\ tx' = [tx EXCEPT ![r] =
                 IF hit THEN Put(@, id, SetFields(view[id], filteredFields(update))) ELSE @]
     /\ Goto(r, UpdatesFrom(r, idx[r] + 1, orderExists[r]))
     /\ UNCHANGED <<db, nextId, req, allItems, orderExists, common, txn, conn, error, resp, db0>>

\* lines 850-868: UPDATE orders SET ... WHERE id = $n AND order_no = $m
Update(r) ==
  LET update == toUpdate(r)[idx[r]]
      id == update["id"]
      view == View(r)
      hit == id \in RowsOf(view, orderNo(r))
  IN /\ pc[r] = "update"
     /\ hit => ~Locked(r, id)
     /\ Did(r, "UPDATE")
     /\ IF ~hit
        THEN /\ Throw(r, Err("No record found", id, orderNo(r), {}))
             /\ UNCHANGED tx
        ELSE /\ tx' = [tx EXCEPT ![r] = Put(@, id, SetFields(view[id], filteredFields(update)))]
             /\ Goto(r, UpdatesFrom(r, idx[r] + 1, orderExists[r]))
             /\ UNCHANGED error
     /\ UNCHANGED <<db, nextId, req, allItems, orderExists, common, txn, conn, resp, db0>>

\* lines 881-946: one INSERT ... RETURNING id per new item
Insert(r) ==
  /\ pc[r] = "insert"
  /\ nextId <= MaxId
  /\ Did(r, "INSERT")
  /\ tx' = [tx EXCEPT ![r] = Put(@, nextId, Stored(insertItem(orderNo(r), common[r], toInsert(r)[idx[r]]), nextId))]
  /\ nextId' = nextId + 1
  /\ IF idx[r] < Len(toInsert(r))
     THEN /\ idx' = [idx EXCEPT ![r] = @ + 1]
          /\ UNCHANGED pc
     ELSE Goto(r, [pc |-> AfterInserts(r, orderExists[r]), idx |-> 1])
  /\ UNCHANGED <<db, req, allItems, orderExists, common, txn, conn, error, resp, db0>>

\* a broadcast whose UPDATE has lost its WHERE clause
BroadcastEveryOrder(r) ==
  LET view == View(r)
      targets == DOMAIN view
  IN /\ pc[r] = "broadcast"
     /\ \A i \in targets : ~Locked(r, i)
     /\ Did(r, "UPDATE ALL")
     /\ tx' = [tx EXCEPT ![r] = PutAll(@, view, targets, common[r])]
     /\ pc' = [pc EXCEPT ![r] = "commit"]
     /\ UNCHANGED <<db, nextId, req, allItems, orderExists, common, idx, txn, conn, error, resp, db0>>

\* lines 950-990: UPDATE orders SET <the 14 header columns> WHERE order_no = $15
Broadcast(r) ==
  LET view == View(r)
      targets == RowsOf(view, orderNo(r))
  IN /\ pc[r] = "broadcast"
     /\ \A i \in targets : ~Locked(r, i)
     /\ Did(r, "UPDATE ALL")
     /\ tx' = [tx EXCEPT ![r] = PutAll(@, view, targets, common[r])]
     /\ pc' = [pc EXCEPT ![r] = "commit"]
     /\ UNCHANGED <<db, nextId, req, allItems, orderExists, common, idx, txn, conn, error, resp, db0>>

\* line 992
Commit(r) ==
  /\ pc[r] = "commit"
  /\ Did(r, "COMMIT")
  /\ db' = View(r)
  /\ tx' = [tx EXCEPT ![r] = NoTx]
  /\ txn' = [txn EXCEPT ![r] = "committed"]
  /\ pc' = [pc EXCEPT ![r] = "readBack"]
  /\ UNCHANGED <<nextId, req, allItems, orderExists, common, idx, conn, error, resp, db0>>

\* a read-back that takes an order without rows for a failure
ReadBackRequiresRows(r) ==
  LET finalResult == Restrict(View(r), RowsOf(View(r), orderNo(r)))
  IN /\ pc[r] = "readBack"
     /\ Did(r, "SELECT")
     /\ IF DOMAIN finalResult = {}
        THEN /\ Throw(r, Err("Order not found", 0, orderNo(r), {}))
             /\ UNCHANGED resp
        ELSE /\ resp' = [resp EXCEPT ![r] =
                  Response(200, TRUE, NoErr, finalResult,
                           [inserted |-> Len(toInsert(r)), updated |-> Len(toUpdate(r)),
                            deleted |-> Len(toDelete(r)), total |-> Cardinality(DOMAIN finalResult)])]
             /\ pc' = [pc EXCEPT ![r] = "release"]
             /\ UNCHANGED <<idx, error>>
     /\ UNCHANGED <<db, nextId, req, allItems, orderExists, common, tx, txn, conn, db0>>

\* lines 995-1019: SELECT * ... ORDER BY id, then res.json
ReadBack(r) ==
  LET finalResult == Restrict(View(r), RowsOf(View(r), orderNo(r)))
  IN /\ pc[r] = "readBack"
     /\ Did(r, "SELECT")
     /\ resp' = [resp EXCEPT ![r] =
          Response(200, TRUE, NoErr, finalResult,
                   [inserted |-> Len(toInsert(r)), updated |-> Len(toUpdate(r)),
                    deleted |-> Len(toDelete(r)), total |-> Cardinality(DOMAIN finalResult)])]
     /\ pc' = [pc EXCEPT ![r] = "release"]
     /\ UNCHANGED <<db, nextId, req, allItems, orderExists, common, idx, tx, txn, conn, error, db0>>

StorePcs == {"begin", "check", "verify", "delete", "itemCheck", "update",
             "insert", "broadcast", "commit", "readBack"}

\* client.query rejects (connection lost, constraint or type error, deadlock
\* victim, timeout): whatever the statement, control passes to the catch block
StoreError(r) ==
  /\ pc[r] \in StorePcs
  /\ Did(r, "failed query")
  /\ Throw(r, Err(IF pc[r] = "insert" THEN "Failed to insert new item" ELSE "store error", 0, "", {}))
  /\ UNCHANGED <<db, nextId, req, allItems, orderExists, common, tx, txn, conn, resp, db0>>

\* lines 1021-1030: the catch block
Rollback(r) ==
  /\ pc[r] = "rollback"
  /\ Did(r, "ROLLBACK")
  /\ tx' = [tx EXCEPT ![r] = NoTx]
  /\ txn' = [txn EXCEPT ![r] = IF @ = "committed" THEN @ ELSE "aborted"]
  /\ resp' = [resp EXCEPT ![r] = Response(500, FALSE, error[r], NoRows, NoOps)]
  /\ pc' = [pc EXCEPT ![r] = "release"]
  /\ UNCHANGED <<db, nextId, req, allItems, orderExists, common, idx, conn, error, db0>>

\* a handler without the finally block: a failing ROLLBACK leaves the client out
RollbackErrorNoFinally(r) ==
  /\ pc[r] = "rollback"
  /\ Did(r, "ROLLBACK")
  /\ tx' = [tx EXCEPT ![r] = NoTx]
  /\ txn' = [txn EXCEPT ![r] = IF @ = "committed" THEN @ ELSE "aborted"]
  /\ error' = [error EXCEPT ![r] = Err("ROLLBACK failed", 0, "", {})]
  /\ pc' = [pc EXCEPT ![r] = "done"]
  /\ UNCHANGED <<db, nextId, req, allItems, orderExists, common, idx, conn, resp, db0>>

\* the ROLLBACK query itself rejects: its exception leaves the catch block
\* before res.json, the server ends the transaction of the broken session
RollbackError(r) ==
  /\ pc[r] = "rollback"
  /\ Did(r, "ROLLBACK")
  /\ tx' = [tx EXCEPT ![r] = NoTx]
  /\ txn' = [txn EXCEPT ![r] = IF @ = "committed" THEN @ ELSE "aborted"]
  /\ error' = [error EXCEPT ![r] = Err("ROLLBACK failed", 0, "", {})]
  /\ pc' = [pc EXCEPT ![r] = "release"]
  /\ UNCHANGED <<db, nextId, req, allItems, orderExists, common, idx, conn, resp, db0>>

\* lines 1031-1033: the finally block
Release(r) ==
  /\ pc[r] = "release"
  /\ Did(r, "release")
  /\ conn' = [conn EXCEPT ![r] = "released"]
  /\ pc' = [pc EXCEPT ![r] = "done"]
  /\ UNCHANGED <<db, nextId, req, allItems, orderExists, common, idx, tx, txn, error, resp, db0>>

\* ------------------------------------------- the order-number generator
\* A string is the sequence of its characters.
DigitChars == <<"0", "1", "2", "3", "4", "5", "6", "7", "8", "9">>
IsDigit(c) == \E d \in 1..Len(DigitChars) : DigitChars[d] = c
DigitValue(c) == (CHOOSE d \in 1..Len(DigitChars) : DigitChars[d] = c) - 1

NaN == -1
Undefined == <<"u", "n", "d", "e", "f", "i", "n", "e", "d">>

\* Number.prototype.toString
RECURSIVE toString(_)
toString(n) ==
  IF n = NaN THEN <<"N", "a", "N">>
  ELSE IF n < Len(DigitChars) THEN <<DigitChars[n + 1]>>
  ELSE toString(n \div Len(DigitChars)) \o <<DigitChars[(n % Len(DigitChars)) + 1]>>

\* String.prototype.padStart(targetLength, '0')
RECURSIVE padStart(_, _)
padStart(str, targetLength) ==
  IF Len(str) >= targetLength THEN str ELSE padStart(<<"0">> \o str, targetLength)

\* String.prototype.slice(-2)
sliceLast2(str) == IF Len(str) <= 2 THEN str ELSE SubSeq(str, Len(str) - 1, Len(str))

\* String.prototype.split('-')
RECURSIVE split(_)
split(str) ==
  IF \A k \in 1..Len(str) : str[k] # "-" THEN <<str>>
  ELSE LET k == CHOOSE j \in 1..Len(str) :
                  str[j] = "-" /\ \A i \in 1..(j - 1) : str[i] # "-"
       IN <<SubSeq(str, 1, k - 1)>> \o split(SubSeq(str, k + 1, Len(str)))

\* parseInt: the leading decimal digits, NaN when there are none
RECURSIVE parseDigits(_, _)
parseDigits(str, acc) ==
  IF Len(str) = 0 \/ ~IsDigit(str[1]) THEN acc
  ELSE parseDigits(Tail(str), acc * Len(DigitChars) + DigitValue(str[1]))
parseInt(str) ==
  IF Len(str) = 0 \/ ~IsDigit(str[1]) THEN NaN ELSE parseDigits(str, 0)

\* lastSequence + 1
PlusOne(n) == IF n = NaN THEN NaN ELSE n + 1

\* `${parts[k]}`: a missing part prints as undefined
Part(parts, k) == IF k <= Len(parts) THEN parts[k] ELSE Undefined

Join3(a, b, c) == a \o <<"-">> \o b \o <<"-">> \o c

\* lines 592-611: the order number computed from the latest order and the date
nextOrderNumber(latestOrderNo, date) ==
  LET day == padStart(toString(date.day), 2)
      month == padStart(toString(date.month), 2)
      year == sliceLast2(toString(date.year))
      parts == split(latestOrderNo)
      lastDate == Join3(Part(parts, 2), Part(parts, 3), Part(parts, 4))
      currentDate == Join3(day, month, year)
      nextSequence ==
        IF Len(latestOrderNo) > 0 /\ lastDate = currentDate
        THEN padStart(toString(PlusOne(parseInt(Part(parts, 5)))), 4)
        ELSE <<"0", "0", "0", "1">>
  IN <<"S", "Q", "-">> \o Join3(day, month, year) \o <<"-">> \o nextSequence

\* line 588 reads the identifier Order; the module declares no such binding
\* (imports: express, pg, cors, firebase-admin; the store is the pg pool)
OrderIsDeclared == FALSE

GenResponse(status, orderNumber, errorMessage) ==
  [status |-> status, orderNumber |-> orderNumber, error |-> errorMessage]
NoGen == GenResponse(0, <<>>, "")

\* lines 585-615: GET /api/orders/next-order-number
NextOrderNumber ==
  /\ gen = NoGen
  /\ gen' = IF OrderIsDeclared
            THEN GenResponse(200, nextOrderNumber(latest, today), "")
            ELSE \* ReferenceError inside the try block: the catch block answers
                 GenResponse(500, <<>>, "Order is not defined")
  /\ UNCHANGED <<latest, today, stored>>

\* lines 592-611 alone, applied to the order the lookup of line 588 is written
\* to deliver (the one created last) and to the clock
ComputeOrderNumber ==
  /\ gen = NoGen
  /\ gen' = GenResponse(200, nextOrderNumber(latest, today), "")
  /\ UNCHANGED <<latest, today, stored>>

\* ------------------------------------- the handler run from start to end
\* The whole try block on a table nobody else touches, no query failing:
\* [db, nextId, resp] after the response.

Failed(table, nid, e) ==
  [db |-> table, nextId |-> nid, resp |-> Response(500, FALSE, e, NoRows, NoOps)]

\* the for-loop over itemsToUpdate (lines 819-871)
RECURSIVE UpdateLoop(_, _, _, _, _)
UpdateLoop(table, order_no, items, i, exists) ==
  IF i > Len(items) THEN [ok |-> TRUE, db |-> table, error |-> NoErr]
  ELSE LET id == items[i]["id"]
           fields == filteredFields(items[i])
       IN IF exists /\ id \notin DOMAIN table
          THEN [ok |-> FALSE, db |-> table, error |-> Err("does not exist", id, "", {})]
          ELSE IF exists /\ table[id]["order_no"] # order_no
          THEN [ok |-> FALSE, db |-> table,
                error |-> Err("belongs to order", id, table[id]["order_no"], {})]
          ELSE IF DOMAIN fields = {}
          THEN UpdateLoop(table, order_no, items, i + 1, exists)
          ELSE IF id \notin RowsOf(table, order_no)
          THEN [ok |-> FALSE, db |-> table, error |-> Err("No record found", id, order_no, {})]
          ELSE UpdateLoop([table EXCEPT ![id] = SetFields(@, fields)],
                          order_no, items, i + 1, exists)

\* the for-loops over itemsToInsert (lines 881-946)
RECURSIVE InsertLoop(_, _, _, _, _, _)
InsertLoop(table, nid, order_no, cmn, items, i) ==
  IF i > Len(items) THEN [db |-> table, nextId |-> nid]
  ELSE InsertLoop([j \in DOMAIN table \cup {nid} |->
                     IF j = nid THEN Stored(insertItem(order_no, cmn, items[i]), nid)
                     ELSE table[j]],
                  nid + 1, order_no, cmn, items, i + 1)

RunAlone(table, nid, order_no, rawBody) ==
  LET all == SortById(rawBody)
      exists == RowsOf(table, order_no) # {}
      cmn == commonOrderDetails(all)
      ids == deleteIds(all)
      foundIds == RowsOf(table, order_no) \cap SeqRange(ids)
      afterDelete == Restrict(table, DOMAIN table \ foundIds)
      updated == UpdateLoop(afterDelete, order_no, itemsToUpdate(all), 1, exists)
      inserted == InsertLoop(updated.db, nid, order_no, cmn, itemsToInsert(all), 1)
      final == IF exists \/ Len(itemsToInsert(all)) > 0
               THEN [i \in DOMAIN inserted.db |->
                       IF inserted.db[i]["order_no"] = order_no
                       THEN SetCommon(inserted.db[i], cmn) ELSE inserted.db[i]]
               ELSE inserted.db
  IN IF ~exists /\ Len(itemsToInsert(all)) = 0
     THEN Failed(table, nid, Err("does not exist and no new items provided", 0, order_no, {}))
     ELSE IF Len(ids) > 0 /\ exists /\ Cardinality(foundIds) # Len(ids)
     THEN Failed(table, nid, Err("Cannot delete items", 0, order_no, SeqRange(ids) \ foundIds))
     ELSE IF ~updated.ok
     THEN Failed(table, nid, updated.error)
     ELSE [db |-> final, nextId |-> inserted.nextId,
           resp |-> Response(200, TRUE, NoErr, Restrict(final, RowsOf(final, order_no)),
                      [inserted |-> Len(itemsToInsert(all)),
                       updated |-> Len(itemsToUpdate(all)),
                       deleted |-> Len(itemsToDelete(all)),
                       total |-> Cardinality(RowsOf(final, order_no))])]

\* ------------------------------------------------------- inputs and Init
\* a row as POST /orders stores it (lines 629-674): every column from the item
StoredRow(id, order_no, status, customer_name) ==
  [c \in Columns \cup {"id"} |->
     IF c = "id" THEN id
     ELSE IF c = "order_no" THEN order_no
     ELSE IF c = "status" THEN status
     ELSE IF c = "customer_name" THEN customer_name
     ELSE IF c \in commonFields THEN defaultOrderDetails[c]
     ELSE lineDefaults[c]]

\* the last row created belongs to order Y, the rows before it to order X
OwnId == CHOOSE i \in 1..InitRows : \A j \in 1..InitRows : i <= j
ForeignId == InitRows
\* the first id the sequence hands out to a reconciliation
FirstId == InitRows + 1
SeedOrder(i) == IF i = InitRows THEN "Y" ELSE "X"

\* tables POST /orders can have left: ids 1..InitRows, each row present or
\* deleted since; the lines of X agree on the header or not
Seeds ==
  { [i \in S |-> StoredRow(i, SeedOrder(i),
                           IF i = OwnId /\ skew THEN "approved" ELSE "pending",
                           IF i = OwnId /\ skew THEN "acme" ELSE "")] :
      S \in {1..InitRows, {ForeignId}, (1..InitRows) \ {ForeignId}},
      skew \in BOOLEAN }

\* descriptors: inserts (with and without header keys, with keys of their own
\* for id and order_no, with a deletion flag that is false), updates of a row of X and of the row of Y (with
\* allowlisted keys, or with none), deletes, a flag without id, bad numbers
Descriptors ==
  { [item_code |-> "A", quantity |-> "2", status |-> "approved", customer_name |-> "acme"],
    [id |-> 0, order_no |-> "Y", quantity |-> "5"],
    [_deleted |-> TRUE],
    [_deleted |-> FALSE, item_code |-> "B"],
    [id |-> OwnId, quantity |-> "abc", gst |-> "150"] }
  \cup UNION { { [id |-> i, status |-> "closed", quantity |-> "7", order_no |-> "Y"],
                 [id |-> i, customer_name |-> "bolt"] } : i \in {OwnId, ForeignId} }
  \cup { [id |-> i, _deleted |-> TRUE] : i \in 1..InitRows }

SeqsUpTo(S, n) == UNION { [1..k -> S] : k \in 0..n }

Batches == SeqsUpTo(Descriptors, MaxBatch)

OrderNos == {"X", "Y", " "}

Idle(r) == pc[r] = "idle"

InitPut ==
  /\ db \in Seeds
  /\ nextId = FirstId
  /\ pc = [r \in Req |-> "idle"]
  /\ req = [r \in Req |-> [order_no |-> "", isArray |-> TRUE, body |-> <<>>]]
  /\ allItems = [r \in Req |-> <<>>]
  /\ orderExists = [r \in Req |-> FALSE]
  /\ common = [r \in Req |-> defaultOrderDetails]
  /\ idx = [r \in Req |-> 1]
  /\ tx = [r \in Req |-> NoTx]
  /\ txn = [r \in Req |-> "none"]
  /\ conn = [r \in Req |-> "none"]
  /\ log = [r \in Req |-> <<>>]
  /\ error = [r \in Req |-> NoErr]
  /\ resp = [r \in Req |-> NoResp]
  /\ db0 = db

Init ==
  /\ today = [day |-> 5, month |-> 6, year |-> 2024]
  /\ InitPut
  /\ latest = <<>>
  /\ gen = NoGen
  /\ stored = {}

\* one request, run alone
Request(r) ==
  /\ \A o \in Req : Idle(o)
  /\ \E order_no \in OrderNos, body \in Batches : Receive(r, order_no, TRUE, body)

\* a body that is no array (express.json() parsed an object)
BadBody(r) ==
  /\ \A o \in Req : Idle(o)
  /\ \E order_no \in OrderNos : Receive(r, order_no, FALSE, <<>>)

Next ==
  /\ UNCHANGED genVars
  /\ \E r \in Req :
    \/ Request(r)
    \/ BadBody(r)
    \/ Connect(r)
    \/ ConnectError(r)
    \/ Begin(r)
    \/ ExistenceCheck(r)
    \/ VerifyDeletes(r)
    \/ Delete(r)
    \/ ItemCheck(r)
    \/ Update(r)
    \/ Insert(r)
    \/ Broadcast(r)
    \/ Commit(r)
    \/ ReadBack(r)
    \/ StoreError(r)
    \/ Rollback(r)
    \/ RollbackError(r)
    \/ Release(r)

Spec == Init /\ [][Next]_vars

\* ------------------------------------------ two requests at the same time
\* Both handlers run on the one event loop, each await is a point where the
\* other may run; no query fails.
ConcDescriptors ==
  { [item_code |-> "A", quantity |-> "2", status |-> "approved", customer_name |-> "acme"],
    [id |-> 0, order_no |-> "Y", quantity |-> "5"] }
  \cup UNION { { [id |-> i, status |-> "closed", quantity |-> "7", order_no |-> "Y"],
                 [id |-> i, _deleted |-> TRUE] } : i \in {OwnId, ForeignId} }

ConcBatches == SeqsUpTo(ConcDescriptors, MaxConcBatch) \ {<<>>}

RequestConc(r) ==
  \E order_no \in {"X", "Y"}, body \in ConcBatches :
    /\ r = "r1" => order_no = "X"
    /\ Receive(r, order_no, TRUE, body)

InitConc ==
  /\ Init
  /\ \E S \in {1..InitRows, {ForeignId}} :
       db = [i \in S |-> StoredRow(i, SeedOrder(i), "pending", "")]

NextConc ==
  /\ UNCHANGED genVars
  /\ \E r \in Req :
    \/ RequestConc(r)
    \/ Connect(r)
    \/ Begin(r)
    \/ ExistenceCheck(r)
    \/ VerifyDeletes(r)
    \/ Delete(r)
    \/ ItemCheck(r)
    \/ Update(r)
    \/ Insert(r)
    \/ Broadcast(r)
    \/ Commit(r)
    \/ ReadBack(r)
    \/ Rollback(r)
    \/ Release(r)

SpecConc == InitConc /\ [][NextConc]_vars

\* ------------------------------- a row that vanishes under an update
\* r1 updates lines of X (and inserts) while r2 deletes a line of X.
SecondId == OwnId + 1

VanishDescriptors ==
  { [id |-> i, quantity |-> "7"] : i \in {OwnId, SecondId} }
  \cup { [item_code |-> "A", quantity |-> "2"] }

VanishBatches == SeqsUpTo(VanishDescriptors, MaxBatch) \ {<<>>}

RequestVanish(r) ==
  \/ /\ r = "r1"
     /\ \E batch \in VanishBatches : Receive(r, "X", TRUE, batch)
  \/ /\ r = "r2"
     /\ \E i \in {OwnId, SecondId} : Receive(r, "X", TRUE, <<[id |-> i, _deleted |-> TRUE]>>)

NextVanish ==
  /\ UNCHANGED genVars
  /\ \E r \in Req :
    \/ RequestVanish(r)
    \/ Connect(r)
    \/ Begin(r)
    \/ ExistenceCheck(r)
    \/ VerifyDeletes(r)
    \/ Delete(r)
    \/ ItemCheck(r)
    \/ Update(r)
    \/ Insert(r)
    \/ Broadcast(r)
    \/ Commit(r)
    \/ ReadBack(r)
    \/ Rollback(r)
    \/ Release(r)

SpecVanish == InitConc /\ [][NextVanish]_vars

\* ------------------------------------------- one batch, submitted twice
\* r1 carries the batch; once it has ended, r2 carries the same batch to the
\* same order number.  The clock runs: midnight may pass at any moment.
TwiceDescriptors ==
  { [item_code |-> "A", quantity |-> "2", status |-> "approved", customer_name |-> "acme"],
    [id |-> OwnId, order_date |-> "2024-06-01", quantity |-> "7"] }
  \cup UNION { { [id |-> i, status |-> "closed", quantity |-> "7", order_no |-> "Y"],
                 [id |-> i, customer_name |-> "bolt"] } : i \in {OwnId, ForeignId} }

TwiceBatches == SeqsUpTo(TwiceDescriptors, MaxBatch) \ {<<>>}

RequestFirst ==
  \E order_no \in {"X", "Y"}, batch \in TwiceBatches : Receive("r1", order_no, TRUE, batch)

Resubmit ==
  /\ pc["r1"] = "done"
  /\ Receive("r2", req["r1"].order_no, TRUE, req["r1"].body)

\* the date of new Date() changes
Midnight ==
  /\ today = [day |-> 5, month |-> 6, year |-> 2024]
  /\ today' = [day |-> 6, month |-> 6, year |-> 2024]
  /\ UNCHANGED <<putVars, latest, gen, stored>>

NextTwice ==
  \/ Midnight
  \/ /\ UNCHANGED genVars
     /\ \/ RequestFirst
        \/ Resubmit
        \/ \E r \in Req :
             \/ Connect(r)
             \/ Begin(r)
             \/ ExistenceCheck(r)
             \/ ItemCheck(r)
             \/ Update(r)
             \/ Insert(r)
             \/ Broadcast(r)
             \/ Commit(r)
             \/ ReadBack(r)
             \/ Rollback(r)
             \/ Release(r)

SpecTwice == Init /\ [][NextTwice]_vars

\* --------------------------------------------- the generator's requests
\* the dates a request or a stored order number may carry
Dates ==
  { [day |-> 5, month |-> 6, year |-> 2024],
    [day |-> 6, month |-> 6, year |-> 2024],
    [day |-> 5, month |-> 6, year |-> 2124] }

\* SQ-DD-MM-YY-NNNN as the generator formats it
OrderNumber(date, seq) ==
  <<"S", "Q", "-">>
  \o Join3(padStart(toString(date.day), 2), padStart(toString(date.month), 2),
           sliceLast2(toString(date.year)))
  \o <<"-">> \o padStart(toString(seq), 4)

InitGen ==
  /\ today \in Dates
  /\ InitPut
  /\ gen = NoGen
  /\ db = [i \in 1..InitRows |-> StoredRow(i, SeedOrder(i), "pending", "")]
  /\ \/ latest = <<>>
     \/ \E date \in Dates, seq \in 1..MaxSeq : latest = OrderNumber(date, seq)
  /\ stored = IF latest = <<>> THEN {} ELSE {latest}

NextGen == NextOrderNumber /\ UNCHANGED putVars

SpecGen == InitGen /\ [][NextGen]_vars

\* ---------------------------------- the computation of the order number
\* sequences the stored order numbers carry
StoredSeqs == {1, 7, 9998, 9999}

StoredNumbers == {OrderNumber(date, seq) : date \in Dates, seq \in StoredSeqs}

\* the stores POST /orders can have left (it stores the order_no of the
\* request body as it comes), any of the orders being the one created last
InitNumber ==
  /\ today \in Dates
  /\ InitPut
  /\ gen = NoGen
  /\ db = [i \in 1..InitRows |-> StoredRow(i, SeedOrder(i), "pending", "")]
  /\ stored \in {S \in SUBSET StoredNumbers : Cardinality(S) <= MaxStored}
  /\ IF stored = {} THEN latest = <<>> ELSE latest \in stored

NextNumber == ComputeOrderNumber /\ UNCHANGED putVars

SpecNumber == InitNumber /\ [][NextNumber]_vars

\* ------------------------------ orders created with generated numbers
\* POST /orders (617-691) storing an order under the number the generator
\* answered: its rows are the ones created last
CreateOrder ==
  /\ gen.status = 200
  /\ Cardinality(stored \cup {gen.orderNumber}) <= MaxOrders
  /\ stored' = stored \cup {gen.orderNumber}
  /\ latest' = gen.orderNumber
  /\ gen' = NoGen
  /\ UNCHANGED today

\* lines 926-946: the insert phase of a reconciliation adds a row to a stored
\* order, which makes that order the one whose row was created last
AddLine ==
  /\ \E order_no \in stored : latest' = order_no
  /\ UNCHANGED <<today, gen, stored>>

\* the date changes between two requests
NextDay ==
  /\ today = [day |-> 5, month |-> 6, year |-> 2024]
  /\ today' = [day |-> 6, month |-> 6, year |-> 2024]
  /\ UNCHANGED <<latest, gen, stored>>

InitOrders ==
  /\ today \in Dates
  /\ InitPut
  /\ gen = NoGen
  /\ latest = <<>>
  /\ stored = {}

NextOrders ==
  /\ UNCHANGED putVars
  /\ \/ ComputeOrderNumber
     \/ CreateOrder
     \/ AddLine
     \/ NextDay

SpecOrders == InitOrders /\ [][NextOrders]_vars

\* ============================================================== claims
Done(r) == pc[r] = "done"
Succeeded(r) == resp[r].status = 200 /\ resp[r].success
body(r) == req[r].body
HeaderOf(row) == [f \in commonFields |-> row[f]]
HeadersAgree(table, order_no) ==
  \A i, j \in RowsOf(table, order_no) : HeaderOf(table[i]) = HeaderOf(table[j])
Positions(s, x) == {k \in 1..Len(s) : s[k] = x}

\* C1: after a reconciliation of order X that ended with the success response
\* (run alone), all rows stored with order_no = X carry the same value in each
\* of the 14 header columns
C1_HeaderIdentical ==
  \A r \in Req : Succeeded(r) => HeadersAgree(db, orderNo(r))

\* C1 witness: a successful request on an order whose lines disagreed on the
\* header when it arrived, and which still has two lines
C1_Witness ==
  \E r \in Req :
    /\ Done(r) /\ Succeeded(r)
    /\ ~HeadersAgree(db0, orderNo(r))
    /\ Cardinality(RowsOf(db, orderNo(r))) >= 2

\* C2: a request that raised an exception in the try block (at any phase, the
\* ROLLBACK that follows succeeding) has issued ROLLBACK, has sent the failure
\* response, and leaves the table as it was before the request
C2_ExceptionLeavesNoTrace ==
  \A r \in Req :
    (Done(r) /\ error[r].kind \notin {"", "ROLLBACK failed"}) =>
       /\ "ROLLBACK" \in SeqRange(log[r])
       /\ resp[r].status = 500 /\ ~resp[r].success
       /\ db = db0

\* the batch has an update descriptor whose id is stored under another order
HasForeignUpdate(r) ==
  \E k \in 1..Len(body(r)) :
    /\ IsUpdate(body(r)[k])
    /\ body(r)[k]["id"] \in DOMAIN db0
    /\ db0[body(r)[k]["id"]]["order_no"] # orderNo(r)

\* C3: a batch with an update descriptor whose id is stored under another
\* order number is rejected and changes no row, whether or not X has rows
C3_ForeignUpdateRejected ==
  \A r \in Req :
    (Done(r) /\ HasForeignUpdate(r)) =>
       /\ ~Succeeded(r)
       /\ txn[r] # "committed"
       /\ db = db0

\* the batch has a delete descriptor whose id is missing or of another order
HasForeignDelete(r) ==
  \E k \in 1..Len(body(r)) :
    /\ IsDelete(body(r)[k])
    /\ \/ body(r)[k]["id"] \notin DOMAIN db0
       \/ db0[body(r)[k]["id"]]["order_no"] # orderNo(r)

\* C4: a batch with a delete descriptor whose id does not exist or is stored
\* under another order number fails and does not commit, also when X has no
\* rows yet and the batch carries inserts
C4_ForeignDeleteFails ==
  \A r \in Req :
    HasForeignDelete(r) => (txn[r] # "committed" /\ ~Succeeded(r))

\* C5: a stored row never changes its order_no nor its id: a row present
\* before and after a step has the same (id, order_no) in both
C5_RowIdentityStable ==
  [][\A i \in DOMAIN db \cap DOMAIN db' :
        /\ db'[i]["order_no"] = db[i]["order_no"]
        /\ db'[i]["id"] = db[i]["id"]]_vars

\* C5 witness: a committed update by a descriptor that carries an order_no key
\* of its own, different from the order number of the request
C5_Witness ==
  \E r \in Req :
    /\ txn[r] = "committed"
    /\ \E k \in 1..Len(body(r)) :
         /\ IsUpdate(body(r)[k])
         /\ Has(body(r)[k], "order_no")
         /\ body(r)[k]["order_no"] # orderNo(r)
         /\ body(r)[k]["id"] \in DOMAIN db
         /\ db[body(r)[k]["id"]] # db0[body(r)[k]["id"]]

\* Number(v) on the values in use; isNaN(v) is v having no entry
Numerals == [n \in {"0", "2", "5", "7", "150"} |->
               CASE n = "0" -> 0 [] n = "2" -> 2 [] n = "5" -> 5 [] n = "7" -> 7 [] n = "150" -> 150]
isNaN(v) == v \notin DOMAIN Numerals

numericFields ==
  {"disc_percentage", "disc_amount", "spl_disc_percentage", "spl_disc_amount",
   "net_rate", "gross_amount", "total_quantity", "total_amount", "quantity",
   "total_sgst_amount", "total_cgst_amount", "total_igst_amount",
   "total_amount_without_tax", "sgst", "cgst", "igst", "gst"}

\* a descriptor with a non-numeric value in a numeric field or a gst
\* percentage outside 0..100
BadNumbers(update) ==
  \/ \E f \in numericFields \cap DOMAIN update : isNaN(update[f])
  \/ /\ Has(update, "gst") /\ ~isNaN(update["gst"])
     /\ (Numerals[update["gst"]] < 0 \/ Numerals[update["gst"]] > 100)

HasValidationError(r) ==
  \/ Trim(orderNo(r)) = ""
  \/ Len(body(r)) = 0
  \/ \E k \in 1..Len(body(r)) : ~IsDeleted(body(r)[k]) /\ BadNumbers(body(r)[k])

\* C8: a request with a validation error (blank order number, empty batch,
\* non-numeric value in a numeric field, gst outside 0..100) is answered with
\* 400 and the store is not touched: no client acquired, no statement issued
C8_ValidationBeforeStore ==
  \A r \in Req :
    (~Idle(r) /\ req[r].isArray /\ HasValidationError(r)) =>
       /\ conn[r] = "none" /\ log[r] = <<>>
       /\ Done(r) => resp[r].status = 400

\* C9: the client is released at most once and only after COMMIT or ROLLBACK
\* was issued on it; a finished request that acquired a client has released it
C9_ReleaseAfterEnd ==
  \A r \in Req :
    /\ Cardinality(Positions(log[r], "release")) <= 1
    /\ \A k \in Positions(log[r], "release") :
         \E j \in 1..(k - 1) : log[r][j] \in {"COMMIT", "ROLLBACK"}
    /\ (conn[r] = "released") <=> (Positions(log[r], "release") # {})
    /\ (Done(r) /\ "connect" \in SeqRange(log[r])) =>
          Cardinality(Positions(log[r], "release")) = 1

\* C9 witness: a request whose ROLLBACK itself failed (no response written)
\* has finished with its client released
C9_Witness ==
  \E r \in Req :
    /\ Done(r) /\ conn[r] = "released"
    /\ error[r].kind = "ROLLBACK failed" /\ resp[r] = NoResp

Other(r) == CHOOSE o \in Req : o # r
OrderRows(table, order_no) == Restrict(table, RowsOf(table, order_no))

\* the rows a reconciliation inserted, in the order of their ids, without ids
RECURSIVE NewRows(_, _)
NewRows(table, ids) ==
  IF ids = {} THEN <<>>
  ELSE LET i == CHOOSE j \in ids : \A k \in ids : j <= k
       IN <<[table[i] EXCEPT !["id"] = 0]>> \o NewRows(table, ids \ {i})

\* the same rows, but for the ids the sequence gave to the inserted ones
SameUpToNewIds(a, b) ==
  /\ Restrict(a, DOMAIN a \cap 1..InitRows) = Restrict(b, DOMAIN b \cap 1..InitRows)
  /\ NewRows(a, DOMAIN a \ 1..InitRows) = NewRows(b, DOMAIN b \ 1..InitRows)

Alone(r) == RunAlone(db0, FirstId, orderNo(r), body(r))

BothDone(r) == Done(r) /\ Done(Other(r)) /\ conn[r] = "released" /\ conn[Other(r)] = "released"

\* C6 (as claimed): two concurrent requests on different order numbers: the
\* final rows of X and the response for X are those of the request run alone
C6_Independent ==
  \A r \in Req :
    (BothDone(r) /\ orderNo(r) # orderNo(Other(r))) =>
       /\ OrderRows(db, orderNo(r)) = OrderRows(Alone(r).db, orderNo(r))
       /\ resp[r] = Alone(r).resp

OwnershipKinds == {"does not exist", "belongs to order"}

\* C6 (amended): ... are those of the request run alone up to the ids the
\* sequence gave to the rows it inserted; the response has the same status,
\* success flag and operation counts, and the same message unless both are
\* the ownership error of an update descriptor
C6_IndependentUpToIds ==
  \A r \in Req :
    (BothDone(r) /\ orderNo(r) # orderNo(Other(r))) =>
       /\ SameUpToNewIds(OrderRows(db, orderNo(r)), OrderRows(Alone(r).db, orderNo(r)))
       /\ resp[r].status = Alone(r).resp.status
       /\ resp[r].success = Alone(r).resp.success
       /\ resp[r].operations = Alone(r).resp.operations
       /\ SameUpToNewIds(resp[r].data, Alone(r).resp.data)
       /\ \/ resp[r].message = Alone(r).resp.message
          \/ {resp[r].message.kind, Alone(r).resp.message.kind} \subseteq OwnershipKinds

\* C6 witness: both requests, on different orders, have inserted and
\* succeeded, and one got another id for its row than it gets alone
C6_Witness ==
  \E r \in Req :
    /\ BothDone(r) /\ orderNo(r) # orderNo(Other(r))
    /\ Succeeded(r) /\ Succeeded(Other(r))
    /\ Len(toInsert(r)) > 0 /\ Len(toInsert(Other(r))) > 0
    /\ DOMAIN resp[r].data # DOMAIN Alone(r).resp.data

\* r's request run alone, then o's run alone on the result
Serial(r, o) ==
  LET first == RunAlone(db0, FirstId, orderNo(r), body(r))
  IN RunAlone(first.db, first.nextId, orderNo(o), body(o))

\* C7: two concurrent requests on the same order number that both commit
\* leave the rows of one of the two serial orders (up to the ids of inserted
\* rows), and all rows of the order agree on the header
C7_Serialized ==
  \A r \in Req :
    (BothDone(r) /\ orderNo(r) = orderNo(Other(r)) /\ Succeeded(r) /\ Succeeded(Other(r))) =>
       /\ \/ SameUpToNewIds(OrderRows(db, orderNo(r)),
                            OrderRows(Serial(r, Other(r)).db, orderNo(r)))
          \/ SameUpToNewIds(OrderRows(db, orderNo(r)),
                            OrderRows(Serial(Other(r), r).db, orderNo(r)))
       /\ HeadersAgree(db, orderNo(r))

\* the sequence part NNNN of a well-formed order number SQ-DD-MM-YY-NNNN
LatestSeq == parseDigits(SubSeq(latest, 13, Len(latest)), 0)

\* C10: given the latest order number SQ-DD-MM-YY-NNNN of today, the
\* generator answers SQ-DD-MM-YY-(NNNN+1), the sequence padded to 4 digits,
\* for every NNNN from 0001 to 9998
C10_IncrementsToday ==
  (/\ gen # NoGen
   /\ latest = OrderNumber(today, LatestSeq)
   /\ LatestSeq \in 1..9998) =>
     /\ gen.status = 200
     /\ gen.orderNumber = OrderNumber(today, LatestSeq + 1)
     /\ Len(gen.orderNumber) = 16

\* the date part DD-MM-YY and the sequence part of an order number
DateOf(order_no) == SubSeq(order_no, 4, 11)
SeqOf(order_no) == parseDigits(SubSeq(order_no, 13, Len(order_no)), 0)
CurrentDate == DateOf(OrderNumber(today, 1))

\* C11: with no persisted SQ- order number, or with the latest one carrying a
\* date part other than today's DD-MM-YY, the generator answers
\* SQ-DD-MM-YY-0001 for today, whatever the sequence of the latest order
C11_ResetsSequence ==
  (gen # NoGen /\ (latest = <<>> \/ DateOf(latest) # CurrentDate)) =>
     /\ gen.status = 200
     /\ gen.orderNumber = OrderNumber(today, 1)

\* the sequences of the stored order numbers that carry today's date
TodaysSeqs == {SeqOf(o) : o \in {n \in stored : DateOf(n) = CurrentDate}}
Maximum(S) == CHOOSE m \in S : \A n \in S : n <= m

HasShape(order_no) ==
  /\ Len(order_no) = 16
  /\ SubSeq(order_no, 1, 3) = <<"S", "Q", "-">>
  /\ \A k \in {6, 9, 12} : order_no[k] = "-"
  /\ \A k \in {4, 5, 7, 8, 10, 11, 13, 14, 15, 16} : IsDigit(order_no[k])

C14_SuccessResponse ==
  gen # NoGen => (gen.status = 200 /\ gen.error = "" /\ gen.orderNumber # <<>>)

\* the differ of lines 709-711 has run: the request got past the 400 checks
Differed(r) == conn[r] # "none"
Count(s, x) == Cardinality(Positions(s, x))
CarriesId(d) == "id" \in DOMAIN d /\ d["id"] # 0
Flagged(d) == "_deleted" \in DOMAIN d /\ d["_deleted"]

\* C15: the differ splits the batch into toDelete (id and deletion flag),
\* toUpdate (id, no flag) and toInsert (no id, no flag): each descriptor of the
\* batch is, as often as the batch carries it, in the set its id and flag
\* name and in no other, and the sets hold nothing else
C15_DifferPartitions ==
  \A r \in Req : Differed(r) =>
    /\ \A k \in 1..Len(body(r)) :
         LET d == body(r)[k]
         IN /\ Count(toDelete(r), d) = IF CarriesId(d) /\ Flagged(d) THEN Count(body(r), d) ELSE 0
            /\ Count(toUpdate(r), d) = IF CarriesId(d) /\ ~Flagged(d) THEN Count(body(r), d) ELSE 0
            /\ Count(toInsert(r), d) = IF ~CarriesId(d) /\ ~Flagged(d) THEN Count(body(r), d) ELSE 0
    /\ SeqRange(toDelete(r)) \cup SeqRange(toUpdate(r)) \cup SeqRange(toInsert(r))
         \subseteq SeqRange(body(r))
    /\ SeqRange(toDelete(r)) \cap SeqRange(toUpdate(r)) = {}
    /\ SeqRange(toDelete(r)) \cap SeqRange(toInsert(r)) = {}
    /\ SeqRange(toUpdate(r)) \cap SeqRange(toInsert(r)) = {}

\* C15 witness: a batch of two descriptors, one of them flagged and without
\* id, which is in none of the three sets
C15_Witness ==
  \E r \in Req :
    /\ Differed(r)
    /\ Len(body(r)) >= 2
    /\ \E k \in 1..Len(body(r)) : Flagged(body(r)[k]) /\ ~CarriesId(body(r)[k])
    /\ Len(toInsert(r)) + Len(toUpdate(r)) + Len(toDelete(r)) < Len(body(r))

\* the header of r is resolved: the existence check has passed
ResolvedPcs == {"verify", "delete", "itemCheck", "update", "insert",
                "broadcast", "commit", "readBack"}
Resolved(r) == pc[r] \in ResolvedPcs

\* the defaults as the claim lists them: status 'pending', textual fields
\* empty, numeric totals 0, order_date the current date
ClaimedDefaults ==
  [f \in commonFields |->
     IF f = "status" THEN "pending"
     ELSE IF f = "order_date" THEN Today
     ELSE IF f \in {"voucher_type", "customer_code", "customer_name",
                    "executive", "role", "remarks"} THEN ""
     ELSE "0"]

\* the header the source descriptor gives over a table of defaults
HeaderFrom(source, defaults) ==
  [f \in commonFields |-> IF f \in DOMAIN source THEN source[f] ELSE defaults[f]]

\* the header is resolved from the batch as the claim says, with these defaults
ResolvedAsClaimed(r, defaults) ==
  LET kept == {k \in 1..Len(body(r)) : ~Flagged(body(r)[k])}
      withId == {k \in kept : CarriesId(body(r)[k])}
      first == CHOOSE k \in kept : \A j \in kept : k <= j
  IN IF kept = {} THEN common[r] = defaults
     ELSE IF withId # {}
     THEN \E k \in withId : common[r] = HeaderFrom(body(r)[k], defaults)
     ELSE common[r] = HeaderFrom(body(r)[first], defaults)

\* C16 (as claimed): the source of the header is a non-deleted descriptor with
\* an id when there is one, else the first non-deleted descriptor; each header
\* field is the source's value when the source defines it, else the default:
\* status 'pending', textual fields '', numeric totals 0, order_date today
C16_HeaderResolved ==
  \A r \in Req : Resolved(r) => ResolvedAsClaimed(r, ClaimedDefaults)

\* C16 (amended): ... else the default: voucher_type 'Sales Order', status
\* 'pending', the other textual fields '', numeric totals 0, order_date today
C16_HeaderResolvedSalesOrder ==
  \A r \in Req : Resolved(r) => ResolvedAsClaimed(r, defaultOrderDetails)

\* C16 witness: the batch gives an insert with header keys first and then an
\* update with other header keys; the header is resolved from the update
C16_Witness ==
  \E r \in Req :
    /\ Resolved(r) /\ Len(body(r)) >= 2
    /\ ~CarriesId(body(r)[1]) /\ ~Flagged(body(r)[1])
    /\ CarriesId(body(r)[2]) /\ ~Flagged(body(r)[2])
    /\ HeaderFrom(body(r)[1], defaultOrderDetails) # HeaderFrom(body(r)[2], defaultOrderDetails)
    /\ common[r] = HeaderFrom(body(r)[2], defaultOrderDetails)

\* the descriptor without the keys outside keep (id and flag stay)
StripKeys(d, keep) == [k \in DOMAIN d \cap (keep \cup {"id", "_deleted"}) |-> d[k]]

\* the batch with its update descriptors reduced to the keys of keep
StripUpdates(batch, keep) ==
  [k \in 1..Len(batch) |->
     IF CarriesId(batch[k]) /\ ~Flagged(batch[k]) THEN StripKeys(batch[k], keep)
     ELSE batch[k]]

\* r has run to its end with a client, no query having failed
InjectedKinds == {"store error", "Failed to insert new item", "ROLLBACK failed"}
Unfaulted(r) == Done(r) /\ conn[r] = "released" /\ error[r].kind \notin InjectedKinds

\* the keys of the update descriptors outside keep reach no row and raise no
\* error: the response and the table are those of the batch without them
OnlyKeysReach(r, keep) ==
  LET without == RunAlone(db0, FirstId, orderNo(r), StripUpdates(body(r), keep))
  IN /\ resp[r].status = without.resp.status
     /\ resp[r].message = without.resp.message
     /\ db = without.db

\* C17 (as claimed): a key of an update descriptor that is not on the update
\* allowlist reaches no stored row and raises no error: the only columns whose
\* value came from the descriptor are allowlisted ones
C17_OnlyAllowlisted ==
  \A r \in Req : Unfaulted(r) => OnlyKeysReach(r, allowedFields)

\* C17 (amended): a key of an update descriptor that is neither on the update
\* allowlist nor one of the 14 header fields reaches no stored row and raises
\* no error
C17_OnlyAllowlistedOrHeader ==
  \A r \in Req : Unfaulted(r) => OnlyKeysReach(r, allowedFields \cup commonFields)

\* C17 witness: a successful request whose update descriptor carried an
\* order_no of its own besides allowlisted keys, and changed its row
C17_Witness ==
  \E r \in Req :
    /\ Unfaulted(r) /\ Succeeded(r)
    /\ StripUpdates(body(r), allowedFields \cup commonFields) # body(r)
    /\ \E k \in 1..Len(body(r)) :
         /\ CarriesId(body(r)[k]) /\ ~Flagged(body(r)[k])
         /\ DOMAIN filteredFields(body(r)[k]) # {}
         /\ db[body(r)[k]["id"]] # db0[body(r)[k]["id"]]

\* the batch is made of flagged descriptors and names each line that order_no
\* had when the request arrived, once
DeletesEveryLine(r) ==
  /\ ~Idle(r) /\ req[r].isArray
  /\ RowsOf(db0, orderNo(r)) # {}
  /\ \A k \in 1..Len(body(r)) : Flagged(body(r)[k])
  /\ SeqRange(deleteIds(body(r))) = RowsOf(db0, orderNo(r))
  /\ Len(deleteIds(body(r))) = Cardinality(RowsOf(db0, orderNo(r)))

UpdatedRows(r) ==
  {d["id"] : d \in {u \in SeqRange(toUpdate(r)) : DOMAIN filteredFields(u) # {}}}

\* C20: in every success response operations.inserted, .updated and .deleted
\* are the numbers of rows the request added, changed (by its update phase)
\* and removed in the store, and operations.total is the number of rows stored
\* with the order number after commit
C20_OperationsCount ==
  \A r \in Req : (Done(r) /\ Succeeded(r)) =>
    /\ resp[r].operations.inserted = Cardinality(DOMAIN db \ DOMAIN db0)
    /\ resp[r].operations.updated = Cardinality(UpdatedRows(r))
    /\ resp[r].operations.deleted = Cardinality(DOMAIN db0 \ DOMAIN db)
    /\ resp[r].operations.total = Cardinality(RowsOf(db, orderNo(r)))

\* a batch made of update descriptors only
UpdatesOnly(r) ==
  /\ Len(body(r)) > 0
  /\ \A k \in 1..Len(body(r)) : CarriesId(body(r)[k]) /\ ~Flagged(body(r)[k])

\* the batch of updates has been submitted twice in a row, with success
Twice ==
  /\ Done("r1") /\ Done("r2")
  /\ Succeeded("r1") /\ Succeeded("r2")
  /\ UpdatesOnly("r1")

\* the rows of the order after the second request are those after the first
SameRows ==
  /\ resp["r2"].data = resp["r1"].data
  /\ OrderRows(db, orderNo("r2")) = resp["r1"].data

\* C18 (as claimed): a batch of update descriptors only, submitted twice in a
\* row to the same order number, leaves after the second request the same
\* rows with the same field values as after the first
C18_Idempotent ==
  Twice => SameRows

\* C18 (amended): ... provided both requests resolve the same order_date
\* (the source descriptor carries it, or the date has not changed in between)
C18_IdempotentSameDate ==
  (Twice /\ common["r1"]["order_date"] = common["r2"]["order_date"]) => SameRows

\* C18 witness: the first request changed the table, midnight passed before
\* the second resolved its header, and the source descriptor carries order_date
C18_Witness ==
  /\ Twice
  /\ common["r1"]["order_date"] = common["r2"]["order_date"]
  /\ common["r2"]["order_date"] # Today
  /\ db # db0

\* no row had the order number of r when the request arrived
OrderAbsent(r) == Differed(r) /\ RowsOf(db0, orderNo(r)) = {}
NothingToDo == "does not exist and no new items provided"

\* C21: with no row of the requested order number and no insert descriptor
\* the reconciliation fails with an error, is rolled back and leaves the store
\* unchanged; with at least one insert descriptor the request gets past the
\* existence check although the order did not exist
C21_MissingOrderNeedsInsert ==
  \A r \in Req : OrderAbsent(r) =>
    /\ (Len(toInsert(r)) = 0 /\ Unfaulted(r)) =>
         /\ error[r].kind = NothingToDo
         /\ resp[r].status = 500 /\ ~resp[r].success
         /\ txn[r] = "aborted" /\ log[r][Len(log[r]) - 1] = "ROLLBACK"
         /\ SeqRange(log[r]) \cap {"DELETE", "UPDATE", "INSERT", "UPDATE ALL", "COMMIT"} = {}
         /\ db = db0
    /\ Len(toInsert(r)) > 0 =>
         /\ error[r].kind # NothingToDo
         /\ (Unfaulted(r) /\ Len(toUpdate(r)) = 0) => (Succeeded(r) /\ RowsOf(db, orderNo(r)) # {})

\* C21 witness: a batch of a delete and an update descriptor on an order
\* number without rows has ended in the failure response
C21_Witness ==
  \E r \in Req :
    /\ OrderAbsent(r) /\ Unfaulted(r)
    /\ Len(toDelete(r)) > 0 /\ Len(toUpdate(r)) > 0
    /\ resp[r].status = 500

\* every a in the log of r comes before every b
Before(r, a, b) ==
  \A i \in Positions(log[r], a), j \in Positions(log[r], b) : i < j
Issued(r, a) == a \in SeqRange(log[r])

\* the update descriptors of r for which the update phase issues an UPDATE
WrittenUpdates(r) == SelectSeq(toUpdate(r), LAMBDA u : DOMAIN filteredFields(u) # {})

\* C22: the phases of one reconciliation run in the order begin, existence
\* check, delete, update, insert, header broadcast, commit, read-back: no
\* UPDATE before the DELETE of the batch, no INSERT before every UPDATE, the
\* broadcast after the last INSERT and before COMMIT, the rows returned read
\* after COMMIT
C22_PhaseOrder ==
  \A r \in Req :
    /\ Len(log[r]) >= 2 => log[r][2] \in {"BEGIN", "failed query"}
    /\ Len(log[r]) >= 3 => log[r][3] \in {"SELECT", "failed query", "ROLLBACK"}
    /\ Before(r, "DELETE", "UPDATE") /\ Before(r, "DELETE", "INSERT")
    /\ Before(r, "UPDATE", "INSERT")
    /\ Before(r, "DELETE", "UPDATE ALL") /\ Before(r, "UPDATE", "UPDATE ALL")
    /\ Before(r, "INSERT", "UPDATE ALL")
    /\ Before(r, "UPDATE ALL", "COMMIT")
    /\ Cardinality(Positions(log[r], "DELETE")) <= 1
    /\ Cardinality(Positions(log[r], "UPDATE ALL")) <= 1
    /\ Cardinality(Positions(log[r], "COMMIT")) <= 1
    /\ (Issued(r, "UPDATE") /\ Len(toDelete(r)) > 0) => Issued(r, "DELETE")
    /\ Issued(r, "INSERT") =>
         /\ Len(toDelete(r)) > 0 => Issued(r, "DELETE")
         /\ Count(log[r], "UPDATE") = Len(WrittenUpdates(r))
    /\ Issued(r, "UPDATE ALL") =>
         /\ Len(toDelete(r)) > 0 => Issued(r, "DELETE")
         /\ Count(log[r], "UPDATE") = Len(WrittenUpdates(r))
         /\ Count(log[r], "INSERT") = Len(toInsert(r))
    /\ Issued(r, "COMMIT") => Issued(r, "UPDATE ALL")
    /\ Succeeded(r) =>
         \E k \in Positions(log[r], "COMMIT") : log[r][k + 1] = "SELECT"

\* C22 witness: a successful request that has issued a DELETE and then an
\* UPDATE before the broadcast
C22_Witness ==
  \E r \in Req :
    /\ Succeeded(r)
    /\ Issued(r, "DELETE") /\ Issued(r, "UPDATE") /\ Issued(r, "UPDATE ALL")

Mutations == {"DELETE", "UPDATE", "INSERT"}

\* position of the first DELETE, UPDATE or INSERT in the log of r
FirstMutation(r) ==
  CHOOSE p \in 1..Len(log[r]) :
    /\ log[r][p] \in Mutations
    /\ \A q \in 1..(p - 1) : log[r][q] \notin Mutations

\* the ownership queries r has issued before position p: the SELECTs after
\* that of the existence check
ChecksBefore(r, p) == Count(SubSeq(log[r], 1, p - 1), "SELECT") - 1

\* the ownership queries the batch needs: one for its delete ids, one for
\* each update descriptor
ChecksNeeded(r) == (IF Len(toDelete(r)) > 0 THEN 1 ELSE 0) + Len(toUpdate(r))

\* C23: the ownership validation of every id the batch references (for
\* update or delete) is complete before the first mutation: no DELETE, UPDATE
\* or INSERT is issued while a referenced id is still unchecked
C23_ValidationBeforeMutation ==
  \A r \in Req :
    (\E p \in 1..Len(log[r]) : log[r][p] \in Mutations) =>
       ChecksBefore(r, FirstMutation(r)) >= ChecksNeeded(r)

NoRecord == "No record found"

\* C24: when the targeted UPDATE of an update descriptor affects zero rows
\* (its id is absent or not in the requested order at that moment) the request
\* raises an error, applies no later descriptor, and the whole transaction is
\* rolled back, the updates already applied in it included
C24_ZeroRowsAborts ==
  \A r \in Req :
    /\ (OrderAbsent(r) /\ Len(WrittenUpdates(r)) > 0 /\ Len(toInsert(r)) > 0 /\ Done(r)) =>
          error[r].kind = NoRecord
    /\ error[r].kind = NoRecord =>
         /\ SeqRange(log[r]) \cap {"INSERT", "UPDATE ALL", "COMMIT"} = {}
         /\ \A k \in 1..Len(log[r]) :
              (log[r][k] = "UPDATE" /\ \A j \in (k + 1)..Len(log[r]) : log[r][j] # "UPDATE")
                 => (k = Len(log[r]) \/ log[r][k + 1] = "ROLLBACK")
         /\ Done(r) =>
              /\ resp[r].status = 500 /\ ~resp[r].success
              /\ txn[r] = "aborted" /\ tx[r] = NoTx
              /\ \A i \in DOMAIN db : db[i] = db0[i]

\* C24 witness: the UPDATE of the request found its row deleted by the other
\* request, which committed after the ownership check of that row
C24_Witness ==
  \E r \in Req :
    /\ Done(r) /\ error[r].kind = NoRecord
    /\ orderExists[r]
    /\ Count(log[r], "UPDATE") = 1 /\ Count(log[r], "ROLLBACK") = 1
    /\ Succeeded(Other(r))

\* C25: whenever the failure response (status 500, success false) is sent,
\* the rows of the requested order are the ones stored before the request,
\* a failure of the read-back query after COMMIT included
C25_FailureCommitsNothing ==
  \A r \in Req :
    (resp[r].status = 500 /\ ~resp[r].success) =>
       OrderRows(db, orderNo(r)) = OrderRows(db0, orderNo(r))

\* the header source of the batch defines header field f
Supplied(r, f) ==
  LET validItems == SelectSeq(allItems[r], NotDeleted)
  IN Len(validItems) > 0 /\ Has(priorityItem(validItems), f)

\* rows of the requested order stored before the request and still stored
Surviving(r) == RowsOf(db, orderNo(r)) \cap RowsOf(db0, orderNo(r))

\* C26 (as stated): after a successful request the surviving rows of the order
\* keep their stored value of every header field the header source does not
\* define
C26_KeepsStoredHeader ==
  \A r \in Req :
    (Done(r) /\ Succeeded(r)) =>
       \A i \in Surviving(r) : \A f \in commonFields :
          ~Supplied(r, f) => db[i][f] = db0[i][f]

\* C26 (amended): after a successful request every row of the order carries
\* the fixed default of every header field the header source does not define,
\* whatever value was stored before
C26_UnsuppliedHeaderIsDefault ==
  \A r \in Req :
    (Done(r) /\ Succeeded(r)) =>
       \A i \in RowsOf(db, orderNo(r)) : \A f \in commonFields :
          ~Supplied(r, f) => db[i][f] = defaultOrderDetails[f]

\* C26 witness: a surviving row whose stored header field differed from the
\* default carries the default after a request that did not supply the field
C26_Witness ==
  \E r \in Req :
    /\ Done(r) /\ Succeeded(r)
    /\ \E i \in Surviving(r) : \E f \in commonFields :
         /\ ~Supplied(r, f)
         /\ db0[i][f] # defaultOrderDetails[f]
         /\ db[i][f] = defaultOrderDetails[f]

\* the batch names a row stored under another order, or carries an order_no key
Trespasses(r) ==
  \E k \in 1..Len(body(r)) :
    \/ Has(body(r)[k], "order_no") /\ body(r)[k]["order_no"] # orderNo(r)
    \/ /\ HasId(body(r)[k])
       /\ body(r)[k]["id"] \in DOMAIN db0
       /\ db0[body(r)[k]["id"]]["order_no"] # orderNo(r)

\* C27: a request for order number X, at any point of its run and however it
\* ends, leaves every row stored under another order number as it was, and
\* adds no row under another order number
C27_OtherOrdersUntouched ==
  \A r \in Req :
    ~Idle(r) =>
       /\ \A i \in DOMAIN db0 :
            db0[i]["order_no"] # orderNo(r) => (i \in DOMAIN db /\ db[i] = db0[i])
       /\ \A i \in DOMAIN db \ DOMAIN db0 : db[i]["order_no"] = orderNo(r)

\* C27 witness: a committed request that changed the table while its batch
\* named a row of another order or carried another order_no
C27_Witness ==
  \E r \in Req :
    /\ Done(r) /\ Succeeded(r)
    /\ Trespasses(r)
    /\ db # db0

SetsHolding(r, d) ==
  Cardinality({ S \in {"toInsert", "toUpdate", "toDelete"} :
                  \/ S = "toInsert" /\ d \in SeqRange(toInsert(r))
                  \/ S = "toUpdate" /\ d \in SeqRange(toUpdate(r))
                  \/ S = "toDelete" /\ d \in SeqRange(toDelete(r)) })

\* positions of the batch holding a descriptor with the deletion flag and
\* without id (absent or 0)
FlaggedWithoutId(r) ==
  {k \in 1..Len(body(r)) : Flagged(body(r)[k]) /\ ~CarriesId(body(r)[k])}

SetSizes(r) == Len(toInsert(r)) + Len(toUpdate(r)) + Len(toDelete(r))

\* C29 (as stated): every descriptor of an accepted batch is in exactly one
\* of toInsert, toUpdate, toDelete, and the three sizes add up to the length
\* of the batch
C29_EveryDescriptorPlaced ==
  \A r \in Req : Differed(r) =>
    /\ SetSizes(r) = Len(body(r))
    /\ \A k \in 1..Len(body(r)) : SetsHolding(r, body(r)[k]) = 1

\* C29 (amended): a descriptor with the deletion flag and without id is in
\* none of the three sets, every other descriptor (one with id 0 and no flag
\* included, which is an insert) is in exactly one, and the three sizes add up
\* to the length of the batch less the number of flagged descriptors without id
C29_PlacedUnlessFlaggedWithoutId ==
  \A r \in Req : Differed(r) =>
    /\ SetSizes(r) = Len(body(r)) - Cardinality(FlaggedWithoutId(r))
    /\ \A k \in 1..Len(body(r)) :
         /\ SetsHolding(r, body(r)[k]) = IF k \in FlaggedWithoutId(r) THEN 0 ELSE 1
         /\ (Has(body(r)[k], "id") /\ body(r)[k]["id"] = 0 /\ ~Flagged(body(r)[k]))
              => body(r)[k] \in SeqRange(toInsert(r))

\* C29 witness: an accepted batch of a flagged descriptor without id, which
\* is ignored, and a descriptor with id 0, which is inserted
C29_Witness ==
  \E r \in Req :
    /\ Differed(r) /\ Len(body(r)) = 2
    /\ FlaggedWithoutId(r) # {}
    /\ \E k \in 1..2 : Has(body(r)[k], "id") /\ body(r)[k]["id"] = 0
    /\ SetSizes(r) = 1 /\ Len(toInsert(r)) = 1

\* rows request r has created: in its transaction, or committed by it
Created(r) == DOMAIN View(r) \ DOMAIN db0

\* row holds the line values of insert descriptor d, defaults where d has none
LinesFrom(row, d) == \A c \in lineFields : row[c] = OrDefault(d, c)

\* C30: every row the insert phase of a request for order number X has
\* created, before and after the header broadcast and the COMMIT, is stored
\* under X with the resolved header values of the request and an id of the
\* sequence; only its line fields come from an insert descriptor
C30_InsertedRowsBelongToOrder ==
  \A r \in Req :
    ~Idle(r) =>
      /\ Cardinality(Created(r)) <= Len(toInsert(r))
      /\ \A i \in Created(r) :
           LET row == View(r)[i]
           IN /\ row["order_no"] = orderNo(r)
              /\ \A f \in commonFields : row[f] = common[r][f]
              /\ row["id"] = i /\ i >= FirstId
              /\ \E k \in 1..Len(toInsert(r)) : LinesFrom(row, toInsert(r)[k])

\* C30 witness: a committed row whose insert descriptor carried header
\* values other than the resolved ones, taken from a descriptor with an id
C30_Witness ==
  \E r \in Req :
    /\ Done(r) /\ Succeeded(r)
    /\ \E i \in DOMAIN db \ DOMAIN db0 : \E k \in 1..Len(toInsert(r)) :
         /\ LinesFrom(db[i], toInsert(r)[k])
         /\ \E f \in commonFields :
              Has(toInsert(r)[k], f) /\ toInsert(r)[k][f] # db[i][f]

====
